---- MODULE Spec2Model ----
(***************************************************************************)
(* conventional-gitmoji: the Configuration resolver (configuration.ts,     *)
(* emoji.ts) and the Template engine, as a state machine.                  *)
(*                                                                         *)
(* A JSON document is a tagged tree (JStr, JBool, JNull, JArr, JObj). An   *)
(* object in a file is the sequence of its members as written; an object   *)
(* in memory is the sequence of its own enumerable properties in the order *)
(* Object.keys and for..in give them: the keys that are array indices in   *)
(* ascending order, then the other keys in the order they were created.    *)
(* The values zod returns are plain TLA+ values: a text is a string, a     *)
(* z.record or z.object is again a sequence of [key, val] pairs or a       *)
(* record.                                                                 *)
(***************************************************************************)
EXTENDS Integers, Sequences, FiniteSets, TLC

VARIABLES
  pc,           \* "idle" | "loaded" | "failed" | "returned"
  file,         \* fromFile: the document as the file writes it
  entry,        \* which static factory ran: "none" | "fromFile" | "fromFiles"
  rawDefaults,  \* fromFiles: JSON.parse of the defaults file
  rawCustom,    \* fromFiles: JSON.parse of the custom file
  value,        \* the document handed to the constructor (raw or merged)
  config,       \* the Configuration instance: types, aliases, fallback, scopes, order
  call,         \* the lookup method last called and its argument
  returned,     \* what that lookup returned
  tpl,          \* the Template instance: source and replacements
  tcall,        \* the Template method last called and its values
  tout,         \* what that Template method produced
  constructed,  \* history: the Template as its constructor left it
  used          \* history: a call on this Template instance has returned before

vars == <<pc, file, entry, rawDefaults, rawCustom, value, config, call, returned,
          tpl, tcall, tout, constructed, used>>

confVars == <<pc, file, entry, rawDefaults, rawCustom, value, config, call, returned>>
tplVars == <<tpl, tcall, tout, constructed, used>>

----------------------------------------------------------------------------
(* Bounds of the model *)

\* longest `order` array an input document carries
MaxOrderLen == 2
\* most entries an input `types` object carries
MaxTypes == 2
\* most pieces (a literal character, a placeholder, a stray brace) a template
\* pattern is put together from
MaxPieces == 3

----------------------------------------------------------------------------
(* JSON values and JavaScript objects *)

JStr(s) == [t |-> "string", s |-> s]
JBool(b) == [t |-> "boolean", b |-> b]
JNull == [t |-> "null"]
JUndefined == [t |-> "undefined"]
JFunction == [t |-> "function"]
JArr(a) == [t |-> "array", a |-> a]
JObj(o) == [t |-> "object", o |-> o]

\* one own property
P(k, v) == [key |-> k, val |-> v]

\* Object.keys(o): own keys, insertion order
Keys(o) == [i \in 1..Len(o) |-> o[i].key]
KeySet(o) == {o[i].key : i \in 1..Len(o)}
\* Object.hasOwn(o, k)
HasOwn(o, k) == k \in KeySet(o)
\* o[k] for an own key
Get(o, k) == o[CHOOSE i \in 1..Len(o) : o[i].key = k].val
\* the keys of the model that are array indices (canonical numeric strings),
\* with their values
ArrayIndex == ("2" :> 2) @@ ("10" :> 10)
IsArrayIndex(k) == k \in DOMAIN ArrayIndex

RECURSIVE InsertIndexed(_, _)
InsertIndexed(q, p) ==
  IF q = <<>> THEN <<p>>
  ELSE IF ArrayIndex[p.key] < ArrayIndex[Head(q).key] THEN <<p>> \o q
  ELSE <<Head(q)>> \o InsertIndexed(Tail(q), p)

RECURSIVE SortIndexed(_)
SortIndexed(q) == IF q = <<>> THEN <<>> ELSE InsertIndexed(SortIndexed(Tail(q)), Head(q))

\* the own properties of an object created in the order of q, as the object
\* enumerates them: array indices ascending, then the rest as created
OwnPropertyOrder(q) ==
  SortIndexed(SelectSeq(q, LAMBDA p : IsArrayIndex(p.key)))
    \o SelectSeq(q, LAMBDA p : ~IsArrayIndex(p.key))

\* o[k] = v: an existing key keeps its place, a new one is created last
Put(o, k, v) ==
  IF HasOwn(o, k)
    THEN [i \in 1..Len(o) |-> IF o[i].key = k THEN P(k, v) ELSE o[i]]
    ELSE OwnPropertyOrder(Append(o, P(k, v)))

\* JSON.parse: every object has its members created in the order written
RECURSIVE JSONParse(_)
JSONParse(j) ==
  IF j.t = "object"
    THEN JObj(OwnPropertyOrder([i \in 1..Len(j.o) |-> P(j.o[i].key, JSONParse(j.o[i].val))]))
  ELSE IF j.t = "array" THEN JArr([i \in 1..Len(j.a) |-> JSONParse(j.a[i])])
  ELSE j

\* the property names every plain object inherits from Object.prototype
ObjectPrototypeKeys ==
  {"constructor", "toString", "toLocaleString", "valueOf", "hasOwnProperty",
   "isPrototypeOf", "propertyIsEnumerable", "__proto__", "__defineGetter__",
   "__defineSetter__", "__lookupGetter__", "__lookupSetter__"}

\* the JavaScript `k in o` of a plain object: own keys and the prototype chain
InOperator(k, o) == HasOwn(o, k) \/ k \in ObjectPrototypeKeys

\* array.includes(x)
Includes(a, x) == \E i \in 1..Len(a) : a[i] = x
\* array.indexOf(x): zero-based first position, -1 when absent
IndexOf(a, x) ==
  IF Includes(a, x)
    THEN (CHOOSE i \in 1..Len(a) : a[i] = x /\ \A j \in 1..(i - 1) : a[j] # x) - 1
    ELSE -1

\* the strings of the model that carry surrounding whitespace, with what
\* String.prototype.trim leaves of them
Whitespace == (" fix" :> "fix") @@ (" T2" :> "T2") @@ (" s" :> "s") @@ (" " :> "")
Trim(s) == IF s \in DOMAIN Whitespace THEN Whitespace[s] ELSE s

----------------------------------------------------------------------------
(* deepMerge of std@0.208.0/collections, called without options *)

isNonNullObject(v) == v.t \in {"object", "array"}
isMergeable(v) == v.t = "object"

RECURSIVE deepMergeInternal(_, _)
RECURSIVE mergeObjects(_, _)

\* two arrays: options is undefined, so the default { arrays: "merge" } applies
\* and the result is left.concat(right)
mergeArrays(left, right) == left \o right

\* the operands taken the wrong way round: the defaults win
mergeObjectsKeepsLeft(left, right) == left

mergeObjects(left, right) ==
  IF isMergeable(left) /\ isMergeable(right)
    THEN JObj(deepMergeInternal(left.o, right.o))
    ELSE IF left.t = "array" /\ right.t = "array"
      THEN JArr(mergeArrays(left.a, right.a))
      ELSE right

\* the keys of record, then those only other has; a key other has overrides,
\* two non-null objects merge. (The `seen` set only guards shared references,
\* which JSON.parse never produces.)
deepMergeInternal(record, other) ==
  LET all == Keys(record) \o SelectSeq(Keys(other), LAMBDA k : ~HasOwn(record, k))
      keys == SelectSeq(all, LAMBDA k : k # "__proto__")
      merged(key) ==
        IF ~HasOwn(other, key) THEN Get(record, key)
        ELSE IF HasOwn(record, key) /\ isNonNullObject(Get(record, key))
                /\ isNonNullObject(Get(other, key))
          THEN mergeObjects(Get(record, key), Get(other, key))
          ELSE Get(other, key)
  IN OwnPropertyOrder([i \in 1..Len(keys) |-> P(keys[i], merged(keys[i]))])

deepMerge(record, other) == JObj(deepMergeInternal(record.o, other.o))

----------------------------------------------------------------------------
(* The zod schemas. A parse gives [ok, value]; value is read only when ok. *)

Null == "<null>"
Fail == [ok |-> FALSE, value |-> Null]
Ok(v) == [ok |-> TRUE, value |-> v]

\* own property of a parsed JSON object, undefined when missing
Prop(j, k) == IF HasOwn(j.o, k) THEN Get(j.o, k) ELSE JUndefined

\* data[k] as z.object reads it: a missing own key falls through to
\* Object.prototype
InheritedProp(j, k) ==
  IF HasOwn(j.o, k) THEN Get(j.o, k)
  ELSE IF k \in ObjectPrototypeKeys THEN JFunction ELSE JUndefined

\* z.string().trim().min(1)
TextSchema(j) ==
  IF j.t = "string" /\ Trim(j.s) # "" THEN Ok(Trim(j.s)) ELSE Fail

\* z.enum(["major", "minor", "patch"])
ReleaseTypes == {"major", "minor", "patch"}
\* ReleaseTypeSchema.nullable()
SemverSchema(j) ==
  IF j.t = "null" THEN Ok(Null)
  ELSE IF j.t = "string" /\ j.s \in ReleaseTypes THEN Ok(j.s) ELSE Fail

\* z.boolean()
BooleanSchema(j) == IF j.t = "boolean" THEN Ok(j.b) ELSE Fail

\* the strings of the model that EMOJI_CODE_REGEX /^:\w+:$/ matches
EmojiCodes == {":sparkles:", ":bug:", ":package:", ":tada:"}
EMOJI_CODE_REGEX(s) == s \in EmojiCodes
\* the strings of the model that emojiRegex() finds an emoji in
EmojiCharacters == {"U+2728", "U+1F41B", "U+1F4E6", "U+1F389"}
EMOJI_CHAR_REGEX_GLOBAL(s) == s \in EmojiCharacters

EmojiObjectSchema(j) ==
  IF j.t # "object" THEN Fail
  ELSE LET character == Prop(j, "character")
           code == Prop(j, "code")
           name == Prop(j, "name")
       IN IF /\ character.t = "string" /\ EMOJI_CHAR_REGEX_GLOBAL(character.s)
             /\ code.t = "string" /\ EMOJI_CODE_REGEX(code.s)
             /\ name.t = "string"
            THEN Ok([character |-> character.s, code |-> code.s, name |-> name.s])
            ELSE Fail

\* z.object strips the keys its shape does not name
CommitTypeSchema(j) ==
  IF j.t # "object" THEN Fail
  ELSE LET type == TextSchema(Prop(j, "type"))
           title == TextSchema(Prop(j, "title"))
           description == TextSchema(Prop(j, "description"))
           semver == SemverSchema(Prop(j, "semver"))
           changelog == BooleanSchema(Prop(j, "changelog"))
           emoji == EmojiObjectSchema(Prop(j, "emoji"))
       IN IF type.ok /\ title.ok /\ description.ok /\ semver.ok /\ changelog.ok
             /\ emoji.ok
            THEN Ok([type |-> type.value, title |-> title.value,
                     description |-> description.value, semver |-> semver.value,
                     changelog |-> changelog.value, emoji |-> emoji.value])
            ELSE Fail

\* CommitTypeSchema.omit({ title: true }).extend({ name: TextSchema })
CommitAliasSchema(j) ==
  IF j.t # "object" THEN Fail
  ELSE LET type == TextSchema(Prop(j, "type"))
           description == TextSchema(Prop(j, "description"))
           semver == SemverSchema(Prop(j, "semver"))
           changelog == BooleanSchema(Prop(j, "changelog"))
           emoji == EmojiObjectSchema(Prop(j, "emoji"))
           name == TextSchema(Prop(j, "name"))
       IN IF type.ok /\ description.ok /\ semver.ok /\ changelog.ok /\ emoji.ok
             /\ name.ok
            THEN Ok([type |-> type.value, description |-> description.value,
                     semver |-> semver.value, changelog |-> changelog.value,
                     emoji |-> emoji.value, name |-> name.value])
            ELSE Fail

\* ParseStatus.mergeObjectSync: finalObject[key.value] = value.value, pair by pair
RECURSIVE mergeObjectSync(_, _)
mergeObjectSync(pairs, finalObject) ==
  IF pairs = <<>> THEN finalObject
  ELSE mergeObjectSync(Tail(pairs),
         IF Head(pairs).key = "__proto__" THEN finalObject
         ELSE Put(finalObject, Head(pairs).key, Head(pairs).val))

\* z.record(TextSchema, valueSchema), given each value's parse: the key the
\* record keeps is the key schema's output, that is the trimmed key
ZodRecord(j, parsed) ==
  IF j.t # "object" THEN Fail
  ELSE IF \A i \in 1..Len(j.o) : TextSchema(JStr(j.o[i].key)).ok /\ parsed[i].ok
    THEN Ok(mergeObjectSync(
              [i \in 1..Len(j.o) |->
                 P(TextSchema(JStr(j.o[i].key)).value, parsed[i].value)], <<>>))
    ELSE Fail

TypesSchema(j) ==
  ZodRecord(j, IF j.t = "object"
                 THEN [i \in 1..Len(j.o) |-> CommitTypeSchema(j.o[i].val)] ELSE <<>>)

AliasesSchema(j) ==
  ZodRecord(j, IF j.t = "object"
                 THEN [i \in 1..Len(j.o) |-> CommitAliasSchema(j.o[i].val)] ELSE <<>>)

\* z.array(TextSchema)
TextArraySchema(j) ==
  IF j.t = "array" /\ \A i \in 1..Len(j.a) : TextSchema(j.a[i]).ok
    THEN Ok([i \in 1..Len(j.a) |-> TextSchema(j.a[i]).value])
    ELSE Fail

\* z.array(TextSchema).default([])
TextArrayDefaultSchema(j) == IF j.t = "undefined" THEN Ok(<<>>) ELSE TextArraySchema(j)

\* the z.object of ConfigurationSchema; scopes is z.custom() without a check,
\* which lets any value through, undefined included
ConfigurationObject(j) ==
  IF j.t # "object" THEN Fail
  ELSE LET types == TypesSchema(Prop(j, "types"))
           aliases == AliasesSchema(Prop(j, "aliases"))
           fallback == TextSchema(Prop(j, "fallback"))
           order == TextArrayDefaultSchema(Prop(j, "order"))
       IN IF types.ok /\ aliases.ok /\ fallback.ok /\ order.ok
            THEN Ok([types |-> types.value, aliases |-> aliases.value,
                     fallback |-> fallback.value, scopes |-> Prop(j, "scopes"),
                     order |-> order.value])
            ELSE Fail

\* .refine(({ fallback, types }) => fallback in types)
FallbackRefine(v) == InOperator(v.fallback, v.types)

\* the loop of the transform over keys: a key the order lacks is pushed
RECURSIVE CompleteOrder(_, _)
CompleteOrder(keys, order) ==
  IF keys = <<>> THEN order
  ELSE CompleteOrder(Tail(keys),
         IF ~Includes(order, Head(keys)) THEN Append(order, Head(keys)) ELSE order)

\* z.object(shape).parse(scopes), shape[key] = z.array(TextSchema).default([])
\* for every key of types: keys outside the shape are stripped
ScopesSchema(keys, scopes) ==
  IF scopes.t # "object" THEN Fail
  ELSE IF \A i \in 1..Len(keys) :
            TextArrayDefaultSchema(InheritedProp(scopes, keys[i])).ok
    THEN Ok([i \in 1..Len(keys) |->
               P(keys[i], TextArrayDefaultSchema(InheritedProp(scopes, keys[i])).value)])
    ELSE Fail

\* z.array(schema.keyof()).parse(order): every entry is one of the keys
OrderSchema(keys, order) ==
  IF \A i \in 1..Len(order) : Includes(keys, order[i]) THEN Ok(order) ELSE Fail

\* .transform(function (value) { ... })
Transform(v) ==
  LET keys == Keys(v.types)
      order == CompleteOrder(keys, v.order)
      scopes == ScopesSchema(keys, v.scopes)
      checked == OrderSchema(keys, order)
  IN IF scopes.ok /\ checked.ok
       THEN Ok([v EXCEPT !.scopes = scopes.value, !.order = checked.value])
       ELSE Fail

\* ConfigurationSchema.parse(value); a ZodError is ok = FALSE
ConfigurationSchema(j) ==
  LET object == ConfigurationObject(j)
  IN IF object.ok /\ FallbackRefine(object.value)
       THEN Transform(object.value) ELSE Fail

\* the constructor's loop: commitType.index = this.order.indexOf(commitType.type)
AssignIndex(types, order) ==
  [i \in 1..Len(types) |->
     P(types[i].key,
       [type |-> types[i].val.type, title |-> types[i].val.title,
        description |-> types[i].val.description, semver |-> types[i].val.semver,
        changelog |-> types[i].val.changelog, emoji |-> types[i].val.emoji,
        index |-> IndexOf(order, types[i].val.type)])]

\* new Configuration(value): the parsed properties with the indices assigned
Construct(parsed) == [parsed EXCEPT !.types = AssignIndex(parsed.types, parsed.order)]

----------------------------------------------------------------------------
(* The documents the files hold *)

\* all sequences over S of length at most n
SeqsUpTo(S, n) == UNION {[1..k -> S] : k \in 0..n}
IsInjective(q) == \A i, j \in 1..Len(q) : q[i] = q[j] => i = j

EmojiJson(code) ==
  JObj(<<P("character", JStr("U+2728")), P("code", JStr(code)), P("name", JStr("n"))>>)

TypeJson(type, title, code) ==
  JObj(<<P("type", JStr(type)), P("title", JStr(title)), P("description", JStr("d")),
         P("semver", JNull), P("changelog", JBool(TRUE)), P("emoji", EmojiJson(code))>>)

AliasJson(type, name, code) ==
  JObj(<<P("type", JStr(type)), P("name", JStr(name)), P("description", JStr("d")),
         P("semver", JStr("patch")), P("changelog", JBool(FALSE)),
         P("emoji", EmojiJson(code))>>)

\* a document from its parts; a part that is JUndefined is a missing key
Document(types, aliases, fallback, order, scopes) ==
  JObj(SelectSeq(<<P("types", types), P("aliases", aliases), P("fallback", fallback),
                   P("order", order), P("scopes", scopes)>>,
                 LAMBDA p : p.val # JUndefined))

TypeKeyPool == {"feat", "fix", " fix"}
OtherKey(k) == IF Trim(k) = "feat" THEN "fix" ELSE "feat"
\* a record names its own key as its type, or another one
TypeVariants ==
  {[own |-> TRUE, code |-> ":sparkles:"], [own |-> TRUE, code |-> ":bug:"],
   [own |-> FALSE, code |-> ":sparkles:"]}

TypesObjects ==
  UNION {{JObj([i \in 1..Len(ks) |->
                  P(ks[i], TypeJson(IF v[i].own THEN ks[i] ELSE OtherKey(ks[i]),
                                    "T", v[i].code))]) :
            v \in [1..Len(ks) -> TypeVariants]} :
         ks \in {q \in SeqsUpTo(TypeKeyPool, MaxTypes) : IsInjective(q)}}

NoAliases == JObj(<<>>)
AliasesObjects ==
  {NoAliases}
  \cup {JObj(<<P("dep", AliasJson(t, "dep", ":package:")),
               P("dev", AliasJson("feat", "dev", ":package:"))>>) :
          t \in {"feat", "ghost", "toString"}}

Fallbacks == {JStr("feat"), JStr(" fix"), JStr("ghost"), JStr("toString")}

OrderPool == {"feat", "fix", " fix"}
Orders ==
  {JUndefined} \cup {JArr([i \in 1..Len(q) |-> JStr(q[i])]) : q \in SeqsUpTo(OrderPool, MaxOrderLen)}

NoScopes == JObj(<<>>)
ScopesObjects ==
  {JUndefined, NoScopes,
   JObj(<<P("feat", JArr(<<JStr("s"), JStr(" s")>>)), P("dep", JArr(<<JStr("s")>>))>>),
   JObj(<<P("dep", JArr(<<>>)), P("fix", JArr(<<JStr(" ")>>))>>)}

\* the fallback a well-formed document names: its first type
FirstKey(types) == IF types.o = <<>> THEN JStr("feat") ELSE JStr(types.o[1].key)

\* types and aliases whose keys are array indices, written in an order
\* other than the ascending one, or after a key that is none
IndexKeyTypes ==
  {JObj(<<P(ks[1], TypeJson(ks[1], "T", ":sparkles:")), P(ks[2], TypeJson(ks[2], "T", c))>>) :
     ks \in {<<"feat", "2">>, <<"10", "2">>, <<"2", "10">>}, c \in {":sparkles:", ":bug:"}}
IndexKeyAliases ==
  {NoAliases,
   JObj(<<P("dep", AliasJson("feat", "dep", ":package:")),
          P("10", AliasJson("2", "10", ":package:")),
          P("2", AliasJson("2", "2", ":package:"))>>)}

\* the files fromFile reads: every types object, with one more part varied
Documents ==
  {Document(t, NoAliases, FirstKey(t), o, NoScopes) : t \in TypesObjects, o \in Orders}
  \cup {Document(t, a, FirstKey(t), JUndefined, NoScopes) :
          t \in IndexKeyTypes, a \in IndexKeyAliases}
  \cup {Document(t, a, f, JUndefined, NoScopes) :
          t \in TypesObjects, a \in AliasesObjects, f \in Fallbacks}
  \cup {Document(t, a, FirstKey(t), JUndefined, s) :
          t \in TypesObjects, a \in AliasesObjects, s \in ScopesObjects}

\* the defaults files fromFiles reads
DefaultsDocuments ==
  {Document(JObj(<<P("feat", TypeJson("feat", "T", ":sparkles:")),
                   P("fix", TypeJson("fix", "T", ":bug:"))>>),
            JObj(<<P("dep", AliasJson("feat", "dep", ":package:"))>>),
            JStr("feat"),
            JArr(<<JStr("fix"), JStr("feat")>>),
            JObj(<<P("feat", JArr(<<JStr("s")>>)), P("dep", JArr(<<JStr("s")>>))>>)),
   Document(JObj(<<P("feat", TypeJson("feat", "T", ":sparkles:"))>>),
            NoAliases, JStr("feat"), JUndefined, NoScopes)}

\* the types a custom file may carry: nothing, partial records that override
\* single fields, whole new records
CustomTypes ==
  {JUndefined,
   JObj(<<P("feat", JObj(<<P("title", JStr("T2"))>>))>>),
   JObj(<<P("feat", JObj(<<P("title", JStr(" T2"))>>))>>),
   JObj(<<P("feat", JObj(<<P("semver", JStr("minor")),
                           P("emoji", JObj(<<P("code", JStr(":tada:"))>>))>>))>>),
   JObj(<<P("feat", JObj(<<P("emoji", JObj(<<P("code", JStr("tada"))>>))>>))>>),
   JObj(<<P("fix", TypeJson("fix", "T2", ":tada:"))>>),
   JObj(<<P("fix", JObj(<<P("title", JStr("T2"))>>)),
          P("feat", JObj(<<P("type", JStr("fix"))>>))>>),
   JObj(<<P(" fix", TypeJson("fix", "T2", ":tada:"))>>)}

CustomFallbacks == {JUndefined, JStr("fix"), JStr(" fix")}
CustomScopes ==
  {JUndefined,
   JObj(<<P("feat", JArr(<<JStr("t")>>))>>),
   JObj(<<P("fix", JArr(<<JStr("t")>>)), P("dep", JArr(<<JStr("t")>>))>>)}

\* the custom files fromFiles reads
CustomDocuments ==
  {Document(t, JUndefined, f, JUndefined, s) :
     t \in CustomTypes, f \in CustomFallbacks, s \in CustomScopes}
  \cup {Document(t, JUndefined, JUndefined, o, JUndefined) : t \in CustomTypes, o \in Orders}

----------------------------------------------------------------------------
(* The Configuration class *)

NoConfiguration ==
  [types |-> <<>>, aliases |-> <<>>, fallback |-> Null, scopes |-> <<>>, order |-> <<>>]
NoCall == [method |-> "none", name |-> Null]
NoResult == [kind |-> "none"]
NullResult == [kind |-> "null"]


Init ==
  /\ pc = "idle"
  /\ file = JUndefined
  /\ entry = "none"
  /\ rawDefaults = JUndefined
  /\ rawCustom = JUndefined
  /\ value = JUndefined
  /\ config = NoConfiguration
  /\ call = NoCall
  /\ returned = NoResult
  /\ tpl = [source |-> <<>>, replacements |-> <<>>]
  /\ tcall = [method |-> "none", values |-> <<>>]
  /\ tout = NoResult
  /\ constructed = tpl
  /\ used = FALSE

\* protected constructor(value): parse, assign, index; a ZodError leaves no instance
Constructor(v) ==
  LET parsed == ConfigurationSchema(v)
  IN /\ value' = v
     /\ IF parsed.ok
          THEN pc' = "loaded" /\ config' = Construct(parsed.value)
          ELSE pc' = "failed" /\ config' = NoConfiguration

\* static fromFile(path)
FromFile ==
  /\ pc = "idle"
  /\ \E raw \in Documents :
       /\ entry' = "fromFile"
       /\ file' = raw
       /\ Constructor(JSONParse(raw))
  /\ UNCHANGED <<rawDefaults, rawCustom, call, returned, tplVars>>

\* the override left out: the merged order is what deepMerge made of both
OverrideOrderSkipped(merged, custom) == merged

\* merged.order = rawCustom.order when "order" in rawCustom
OverrideOrder(merged, custom) ==
  IF HasOwn(custom.o, "order")
    THEN JObj(Put(merged.o, "order", Get(custom.o, "order")))
    ELSE merged

\* static fromFiles(defaultPath, customPath)
FromFiles ==
  /\ pc = "idle"
  /\ \E defaults \in DefaultsDocuments, custom \in CustomDocuments :
       /\ entry' = "fromFiles"
       /\ rawDefaults' = JSONParse(defaults)
       /\ rawCustom' = JSONParse(custom)
       /\ Constructor(OverrideOrder(deepMerge(JSONParse(defaults), JSONParse(custom)),
                                    JSONParse(custom)))
  /\ UNCHANGED <<file, call, returned, tplVars>>

\* this.types[name] once `name in this.types` held: the own record, or the
\* member of Object.prototype of that name
Member(o, name, kind) ==
  IF HasOwn(o, name) THEN [kind |-> kind, value |-> Get(o, name)]
  ELSE [kind |-> "inherited", name |-> name]

findTypeByName(c, name) ==
  IF InOperator(name, c.types) THEN Member(c.types, name, "CommitType") ELSE NullResult

findAliasByName(c, name) ==
  IF InOperator(name, c.aliases) THEN Member(c.aliases, name, "CommitAlias") ELSE NullResult

\* alias.type: a member of Object.prototype has no such property, and the
\* undefined it gives is looked up as the key "undefined"
TypeProperty(alias) == IF alias.kind = "CommitAlias" THEN alias.value.type ELSE "undefined"

findTypeByAliasName(c, name) ==
  LET alias == findAliasByName(c, name)
  IN IF alias = NullResult THEN NullResult ELSE findTypeByName(c, TypeProperty(alias))

\* the scan that keeps going: the last entry with the code wins
LastByEmojiCode(o, emoji, kind) ==
  IF \E i \in 1..Len(o) : o[i].val.emoji.code = emoji
    THEN [kind |-> kind,
          value |-> o[CHOOSE i \in 1..Len(o) :
                        /\ o[i].val.emoji.code = emoji
                        /\ \A j \in (i + 1)..Len(o) : o[j].val.emoji.code # emoji].val]
    ELSE NullResult

\* for (const key in o) if (o[key].emoji.code === emoji) return o[key]
FirstByEmojiCode(o, emoji, kind) ==
  IF \E i \in 1..Len(o) : o[i].val.emoji.code = emoji
    THEN [kind |-> kind,
          value |-> o[CHOOSE i \in 1..Len(o) :
                        /\ o[i].val.emoji.code = emoji
                        /\ \A j \in 1..(i - 1) : o[j].val.emoji.code # emoji].val]
    ELSE NullResult

findTypeByEmojiCode(c, emoji) == FirstByEmojiCode(c.types, emoji, "CommitType")

findAliasByEmojiCode(c, emoji) == FirstByEmojiCode(c.aliases, emoji, "CommitAlias")

\* the names and emoji codes the callers look up
LookupNames == {"feat", "fix", "dep", "toString", "ghost"}
LookupCodes == {":sparkles:", ":bug:", ":package:", ":tada:"}

Lookup(method, name, result) ==
  /\ pc = "loaded"
  /\ pc' = "returned"
  /\ call' = [method |-> method, name |-> name]
  /\ returned' = result
  /\ UNCHANGED <<file, entry, rawDefaults, rawCustom, value, config, tplVars>>

FindTypeByName ==
  \E name \in LookupNames : Lookup("findTypeByName", name, findTypeByName(config, name))

FindTypeByAliasName ==
  \E name \in LookupNames :
    Lookup("findTypeByAliasName", name, findTypeByAliasName(config, name))

FindTypeByEmojiCode ==
  \E emoji \in LookupCodes :
    Lookup("findTypeByEmojiCode", emoji, findTypeByEmojiCode(config, emoji))

FindAliasByName ==
  \E name \in LookupNames : Lookup("findAliasByName", name, findAliasByName(config, name))

FindAliasByEmojiCode ==
  \E emoji \in LookupCodes :
    Lookup("findAliasByEmojiCode", emoji, findAliasByEmojiCode(config, emoji))

\* the caller takes the result and holds the same instance for its next call
Return ==
  /\ pc = "returned"
  /\ pc' = "loaded"
  /\ call' = NoCall
  /\ returned' = NoResult
  /\ UNCHANGED <<file, entry, rawDefaults, rawCustom, value, config, tplVars>>

Next ==
  \/ FromFile
  \/ FromFiles
  \/ FindTypeByName
  \/ FindTypeByAliasName
  \/ FindTypeByEmojiCode
  \/ FindAliasByName
  \/ FindAliasByEmojiCode
  \/ Return

Spec == Init /\ [][Next]_vars

----------------------------------------------------------------------------
(* The Template class. A pattern is a sequence of characters; a scalar is a  *)
(* string (a sequence of characters), a number or a boolean.                 *)

TStr(s) == [t |-> "string", s |-> s]
TNum(n) == [t |-> "number", n |-> n]
TBool(b) == [t |-> "boolean", b |-> b]

Digit(d) == <<"0", "1", "2", "3", "4", "5", "6", "7", "8", "9">>[d + 1]
RECURSIVE NumberText(_)
NumberText(n) ==
  IF n < 10 THEN <<Digit(n)>> ELSE NumberText(n \div 10) \o <<Digit(n % 10)>>

\* the text form of a scalar: String(value)
TextForm(v) ==
  IF v.t = "string" THEN v.s
  ELSE IF v.t = "number" THEN NumberText(v.n)
  ELSE IF v.b THEN <<"t", "r", "u", "e">> ELSE <<"f", "a", "l", "s", "e">>

Braces == {"{", "}"}

\* the index of the first brace of src after position i, 0 when there is none
NextBrace(src, i) ==
  IF \E j \in (i + 1)..Len(src) : src[j] \in Braces
    THEN CHOOSE j \in (i + 1)..Len(src) :
           src[j] \in Braces /\ \A k \in (i + 1)..(j - 1) : src[k] \notin Braces
    ELSE 0

\* a placeholder opens at i: "{", a name of one or more characters that are
\* no braces, "}"
OpensAt(src, i) ==
  /\ src[i] = "{"
  /\ NextBrace(src, i) > i + 1
  /\ src[NextBrace(src, i)] = "}"

NameAt(src, i) == SubSeq(src, i + 1, NextBrace(src, i) - 1)

\* the spread taken the wrong way round: a default wins over a supplied value
DefaultsOverValues(defaults, values) ==
  [name \in DOMAIN defaults \cup DOMAIN values |->
     IF name \in DOMAIN defaults THEN defaults[name] ELSE values[name]]

\* the supplied values laid over the defaults
Spread(defaults, values) ==
  [name \in DOMAIN defaults \cup DOMAIN values |->
     IF name \in DOMAIN values THEN values[name] ELSE defaults[name]]

\* the names of the placeholders of src from position i on, in order
RECURSIVE PlaceholdersFrom(_, _)
PlaceholdersFrom(src, i) ==
  IF i > Len(src) THEN <<>>
  ELSE IF OpensAt(src, i)
    THEN <<NameAt(src, i)>> \o PlaceholdersFrom(src, NextBrace(src, i) + 1)
    ELSE PlaceholdersFrom(src, i + 1)

Placeholders(src) == PlaceholdersFrom(src, 1)

\* one pass over src from position i: a placeholder with a replacement gives
\* the replacement's text form, every other character is copied
RECURSIVE Substitute(_, _, _)
Substitute(src, i, replacements) ==
  IF i > Len(src) THEN <<>>
  ELSE IF OpensAt(src, i) /\ NameAt(src, i) \in DOMAIN replacements
    THEN TextForm(replacements[NameAt(src, i)])
           \o Substitute(src, NextBrace(src, i) + 1, replacements)
    ELSE <<src[i]>> \o Substitute(src, i + 1, replacements)

\* the check for open placeholders left out: what has a replacement is
\* substituted, the rest stays in braces
renderLenient(t, values) ==
  [kind |-> "string", text |-> Substitute(t.source, 1, Spread(t.replacements, values))]

\* render(values): the text, or a MissingPlaceholderError naming what is open
render(t, values) ==
  LET replacements == Spread(t.replacements, values)
      names == Placeholders(t.source)
      missing == {names[i] : i \in 1..Len(names)} \ DOMAIN replacements
  IN IF missing # {}
       THEN [kind |-> "MissingPlaceholderError", missing |-> missing]
       ELSE [kind |-> "string", text |-> Substitute(t.source, 1, replacements)]

\* the defaults substituted as well, under the supplied values
SuppliedAndDefaults(defaults, values) == Spread(defaults, values)

\* what partialRender substitutes: the supplied values alone. A default is
\* not substituted (template.test.ts: with defaults for first_name and
\* last_name and a value for first_name alone, last_name is still needed)
Supplied(defaults, values) == values

\* every default handed on, needed or not
CarriedAll(defaults, source) == defaults

\* the defaults the new Template takes: those still needed, that is those
\* whose placeholder the new pattern holds
Carried(defaults, source) ==
  [name \in {n \in DOMAIN defaults : Includes(Placeholders(source), n)} |-> defaults[name]]

\* partialRender(values): a new Template of the pattern with the supplied
\* values substituted and of the defaults that pattern still needs
partialRender(t, values) ==
  LET source == Substitute(t.source, 1, Supplied(t.replacements, values))
  IN [kind |-> "Template",
      template |-> [source |-> source, replacements |-> Carried(t.replacements, source)]]

\* `${template}`: the pattern as constructed
toString(t) == [kind |-> "string", text |-> t.source]

\* the pieces a pattern is put together from
Pieces == {<<"a">>, <<"{", "n", "}">>, <<"{", "m", "}">>, <<"{">>, <<"}">>}
RECURSIVE Flatten(_)
Flatten(q) == IF q = <<>> THEN <<>> ELSE Head(q) \o Flatten(Tail(q))
Sources == {Flatten(q) : q \in SeqsUpTo(Pieces, MaxPieces)}

PlaceholderNames == {<<"n">>, <<"m">>}
\* a mapping from some of the names to scalars drawn from S
Mappings(S) == UNION {[D -> S] : D \in SUBSET PlaceholderNames}

\* the default each name has when the constructor is given one for it
DefaultOf == (<<"n">> :> TStr(<<"d">>)) @@ (<<"m">> :> TNum(25))
Defaults == {[name \in D |-> DefaultOf[name]] : D \in SUBSET PlaceholderNames}
ValueScalars == {TStr(<<"x">>), TStr(<<"{", "m", "}">>), TBool(TRUE)}

NoTemplate == [source |-> <<>>, replacements |-> <<>>]
NoValues == <<>>
NoTCall == [method |-> "none", values |-> NoValues]

\* new Template(source, defaults)
InitTemplate ==
  /\ pc = "idle"
  /\ file = JUndefined
  /\ entry = "none"
  /\ rawDefaults = JUndefined
  /\ rawCustom = JUndefined
  /\ value = JUndefined
  /\ config = NoConfiguration
  /\ call = NoCall
  /\ returned = NoResult
  /\ \E source \in Sources, defaults \in Defaults :
       tpl = [source |-> source, replacements |-> defaults]
  /\ tcall = NoTCall
  /\ tout = NoResult
  /\ constructed = tpl
  /\ used = FALSE

\* a method that works on the instance itself: what partialRender produced
\* becomes the instance
AdoptsResult(t, result) == IF result.kind = "Template" THEN result.template ELSE t

\* the instance once a method has returned: no method assigns to its fields
Retained(t, result) == t

TemplateCall(method, values, result) ==
  /\ tcall = NoTCall
  /\ tcall' = [method |-> method, values |-> values]
  /\ tout' = result
  /\ tpl' = Retained(tpl, result)
  /\ UNCHANGED <<constructed, used, confVars>>

Render ==
  \E values \in Mappings(ValueScalars) : TemplateCall("render", values, render(tpl, values))

PartialRender ==
  \E values \in Mappings(ValueScalars) :
    TemplateCall("partialRender", values, partialRender(tpl, values))

CoerceToText == TemplateCall("toString", NoValues, toString(tpl))

\* the caller takes the result and holds the same instance for its next call
TemplateReturn ==
  /\ tcall # NoTCall
  /\ tcall' = NoTCall
  /\ tout' = NoResult
  /\ used' = TRUE
  /\ UNCHANGED <<tpl, constructed, confVars>>

TemplateNext == Render \/ PartialRender \/ CoerceToText \/ TemplateReturn

TemplateSpec == InitTemplate /\ [][TemplateNext]_vars

----------------------------------------------------------------------------
(* What the claims speak of *)

Loaded == pc \in {"loaded", "returned"}
Layered == Loaded /\ entry = "fromFiles"

\* the value at a key path of a document, JUndefined when the path is missing
RECURSIVE JsonAt(_, _)
JsonAt(j, path) ==
  IF path = <<>> THEN j
  ELSE IF j.t = "object" /\ HasOwn(j.o, Head(path))
    THEN JsonAt(Get(j.o, Head(path)), Tail(path))
    ELSE JUndefined

ObjectAt(j, path) == IF JsonAt(j, path).t = "object" THEN JsonAt(j, path).o ELSE <<>>

\* a scalar as the document wrote it
Raw(j) == IF j.t = "string" THEN j.s ELSE IF j.t = "boolean" THEN j.b ELSE Null
RawArray(j) == [i \in 1..Len(j.a) |-> j.a[i].s]
TrimmedArray(j) == [i \in 1..Len(j.a) |-> Trim(j.a[i].s)]

\* the fields of a commit type record, down to the scalars
CommitTypePaths ==
  {<<"type">>, <<"title">>, <<"description">>, <<"semver">>, <<"changelog">>,
   <<"emoji", "character">>, <<"emoji", "code">>, <<"emoji", "name">>}
TextPaths == {<<"type">>, <<"title">>, <<"description">>}
ValueAt(r, path) == IF Len(path) = 1 THEN r[path[1]] ELSE r[path[1]][path[2]]
\* a scalar as the schema keeps it: the text fields trimmed
Normalised(path, j) == IF path \in TextPaths /\ j.t = "string" THEN Trim(j.s) ELSE Raw(j)

Occurrences(a, x) == Cardinality({i \in 1..Len(a) : a[i] = x})
MissingFrom(order, keys) == SelectSeq(keys, LAMBDA k : ~Includes(order, k))

\* C1: in every constructed Configuration, order holds every key of types
\* exactly once, also when the input order repeats a key.
C1_OrderHoldsEveryKeyOnce ==
  Loaded => \A k \in KeySet(config.types) : Occurrences(config.order, k) = 1

\* C2: in every constructed Configuration, types[k].index is the zero-based
\* position of the key k in order, also when the record's type differs from k.
C2_IndexIsPositionOfKey ==
  Loaded =>
    \A i \in 1..Len(config.types) :
      config.types[i].val.index = IndexOf(config.order, config.types[i].key)

\* C3 as stated: after a layered load every key of either types object is a
\* key of the merged types; for a key of both, each field the custom record
\* defines has the custom value and each field only the defaults define has
\* the defaults' value; the fallback follows the same precedence.
C3_CustomValuesAsWritten ==
  Layered =>
    LET d == ObjectAt(rawDefaults, <<"types">>)
        c == ObjectAt(rawCustom, <<"types">>)
        cf == JsonAt(rawCustom, <<"fallback">>)
    IN /\ \A k \in KeySet(d) \cup KeySet(c) : HasOwn(config.types, k)
       /\ \A k \in KeySet(d) \cap KeySet(c) : \A path \in CommitTypePaths :
            LET cv == JsonAt(Get(c, k), path)
                dv == JsonAt(Get(d, k), path)
            IN IF cv # JUndefined
                 THEN ValueAt(Get(config.types, k), path) = Raw(cv)
                 ELSE dv # JUndefined => ValueAt(Get(config.types, k), path) = Raw(dv)
       /\ config.fallback =
            Raw(IF cf # JUndefined THEN cf ELSE JsonAt(rawDefaults, <<"fallback">>))

\* C3 amended: for type keys without surrounding whitespace (and other than
\* __proto__) the same holds of the values as the schema keeps them, that is
\* with the text fields (type, title, description, fallback) trimmed.
C3_CustomValuesNormalised ==
  Layered =>
    LET d == ObjectAt(rawDefaults, <<"types">>)
        c == ObjectAt(rawCustom, <<"types">>)
        cf == JsonAt(rawCustom, <<"fallback">>)
    IN (\A k \in KeySet(d) \cup KeySet(c) : Trim(k) = k /\ k # "__proto__") =>
       /\ \A k \in KeySet(d) \cup KeySet(c) : HasOwn(config.types, k)
       /\ \A k \in KeySet(d) \cap KeySet(c) : \A path \in CommitTypePaths :
            LET cv == JsonAt(Get(c, k), path)
                dv == JsonAt(Get(d, k), path)
            IN IF cv # JUndefined
                 THEN ValueAt(Get(config.types, k), path) = Normalised(path, cv)
                 ELSE dv # JUndefined =>
                        ValueAt(Get(config.types, k), path) = Normalised(path, dv)
       /\ config.fallback =
            Trim(Raw(IF cf # JUndefined THEN cf ELSE JsonAt(rawDefaults, <<"fallback">>)))

\* a layered load succeeded where the custom record of a shared key overrides
\* one field, leaves another to the defaults, and the custom file adds a key
C3_Witness ==
  /\ Layered
  /\ \E k \in KeySet(ObjectAt(rawDefaults, <<"types">>)) :
       /\ HasOwn(ObjectAt(rawCustom, <<"types">>), k)
       /\ JsonAt(rawCustom, <<"types", k, "title">>) # JUndefined
       /\ JsonAt(rawCustom, <<"types", k, "title">>)
            # JsonAt(rawDefaults, <<"types", k, "title">>)
       /\ JsonAt(rawCustom, <<"types", k, "description">>) = JUndefined
       /\ Get(config.types, k).title = "T2"
  /\ JsonAt(rawCustom, <<"fallback">>) # JUndefined
  /\ JsonAt(rawCustom, <<"fallback">>) # JsonAt(rawDefaults, <<"fallback">>)

\* C4 as stated: when the custom document defines order, the resolved order
\* is exactly that order followed by the type keys missing from it.
C4_OrderIsCustomAsWritten ==
  (Layered /\ JsonAt(rawCustom, <<"order">>) # JUndefined) =>
    LET custom == RawArray(JsonAt(rawCustom, <<"order">>))
    IN config.order = custom \o MissingFrom(custom, Keys(config.types))

\* C4 amended: the resolved order is the custom order, each entry trimmed,
\* followed by the type keys missing from it in the iteration order of types.
C4_OrderIsCustomTrimmed ==
  (Layered /\ JsonAt(rawCustom, <<"order">>) # JUndefined) =>
    LET custom == TrimmedArray(JsonAt(rawCustom, <<"order">>))
    IN config.order = custom \o MissingFrom(custom, Keys(config.types))

\* both files define an order, the two differ, and a type key missing from
\* the custom one was appended
C4_Witness ==
  /\ Layered
  /\ JsonAt(rawCustom, <<"order">>) # JUndefined
  /\ JsonAt(rawDefaults, <<"order">>) # JUndefined
  /\ JsonAt(rawCustom, <<"order">>) # JsonAt(rawDefaults, <<"order">>)
  /\ Len(JsonAt(rawCustom, <<"order">>).a) > 0
  /\ Len(config.order) > Len(JsonAt(rawCustom, <<"order">>).a)

\* C5: where both documents hold an array at the same key path, the merged
\* document holds the custom array alone.
C5_ArraysReplaced ==
  entry = "fromFiles" =>
    \A k \in KeySet(ObjectAt(rawDefaults, <<"scopes">>)) :
      (/\ JsonAt(rawDefaults, <<"scopes", k>>).t = "array"
       /\ JsonAt(rawCustom, <<"scopes", k>>).t = "array")
      => JsonAt(value, <<"scopes", k>>) = JsonAt(rawCustom, <<"scopes", k>>)

\* C6: the fallback of every constructed Configuration is a key of its types,
\* and a document whose fallback is no key of its types is rejected.
C6_FallbackIsTypeKey == Loaded => HasOwn(config.types, config.fallback)

\* C7: findTypeByName and findAliasByName return the record stored under the
\* name when it is a key, and null for every other name.
C7_LookupByName ==
  /\ (pc = "returned" /\ call.method = "findTypeByName") =>
       returned = IF HasOwn(config.types, call.name)
                    THEN [kind |-> "CommitType", value |-> Get(config.types, call.name)]
                    ELSE NullResult
  /\ (pc = "returned" /\ call.method = "findAliasByName") =>
       returned = IF HasOwn(config.aliases, call.name)
                    THEN [kind |-> "CommitAlias", value |-> Get(config.aliases, call.name)]
                    ELSE NullResult

\* C8: findTypeByAliasName returns types[aliases[name].type] when the alias
\* and its type exist, and null when either is missing.
C8_LookupByAliasName ==
  (pc = "returned" /\ call.method = "findTypeByAliasName") =>
    returned =
      IF /\ HasOwn(config.aliases, call.name)
         /\ HasOwn(config.types, Get(config.aliases, call.name).type)
        THEN [kind |-> "CommitType",
              value |-> Get(config.types, Get(config.aliases, call.name).type)]
        ELSE NullResult

\* C9: scopes has an entry for every type key and keeps the entry of every
\* alias key the document listed; an entry is the sequence the document gave,
\* the empty sequence when it gave none.
C9_ScopesKeepListedKeys ==
  Loaded =>
    LET given == ObjectAt(value, <<"scopes">>)
        Entry(k) == IF HasOwn(given, k) THEN RawArray(Get(given, k)) ELSE <<>>
    IN /\ \A k \in KeySet(config.types) :
            HasOwn(config.scopes, k) /\ Get(config.scopes, k) = Entry(k)
       /\ \A k \in KeySet(config.aliases) :
            HasOwn(given, k) =>
              HasOwn(config.scopes, k) /\ Get(config.scopes, k) = Entry(k)

\* where the placeholder that opens at i closes: the closing brace after an
\* opening brace at i with a name and no brace between them, if there is one
ClosingOf(src, i) ==
  IF src[i] # "{" THEN {}
  ELSE {j \in (i + 2)..Len(src) :
          src[j] = "}" /\ \A k \in (i + 1)..(j - 1) : src[k] \notin Braces}

\* the occurrences of placeholders in src: the pairs of an opening and a
\* closing brace with a name and no brace between them
PlaceholderOccurrences(src) ==
  UNION {{<<i, j>> : j \in ClosingOf(src, i)} : i \in 1..Len(src)}
NamesIn(src) == {SubSeq(src, ij[1] + 1, ij[2] - 1) : ij \in PlaceholderOccurrences(src)}

\* the replacement the precedence rule picks: the supplied value, else the default
Chosen(name, values, defaults) ==
  IF name \in DOMAIN values THEN TextForm(values[name]) ELSE TextForm(defaults[name])

\* src from position i on, each occurrence replaced by what the rule picks
RECURSIVE Replaced(_, _, _, _)
Replaced(src, i, values, defaults) ==
  IF i > Len(src) THEN <<>>
  ELSE LET closing == ClosingOf(src, i)
       IN IF closing # {}
            THEN LET j == CHOOSE j \in closing : TRUE
                 IN Chosen(SubSeq(src, i + 1, j - 1), values, defaults)
                      \o Replaced(src, j + 1, values, defaults)
            ELSE <<src[i]>> \o Replaced(src, i + 1, values, defaults)

\* C10: when every placeholder has a supplied value or a default, render
\* returns the source with every occurrence of every placeholder replaced by
\* the text form of the supplied value, else of the default.
C10_RenderReplacesEveryOccurrence ==
  (/\ tcall.method = "render"
   /\ NamesIn(tpl.source) \subseteq DOMAIN tcall.values \cup DOMAIN tpl.replacements)
  => /\ tout.kind = "string"
     /\ tout.text = Replaced(tpl.source, 1, tcall.values, tpl.replacements)

\* a render succeeded on a pattern that repeats a placeholder for which a
\* value was supplied over a default of another text, next to a placeholder
\* only the defaults resolve
C10_Witness ==
  /\ tcall.method = "render"
  /\ tout.kind = "string"
  /\ \E n \in DOMAIN tcall.values \cap DOMAIN tpl.replacements :
       /\ Cardinality({ij \in PlaceholderOccurrences(tpl.source) :
                         SubSeq(tpl.source, ij[1] + 1, ij[2] - 1) = n}) = 2
       /\ TextForm(tcall.values[n]) # TextForm(tpl.replacements[n])
  /\ \E m \in NamesIn(tpl.source) : m \notin DOMAIN tcall.values

\* C11: when the pattern holds a placeholder whose name is in neither the
\* supplied values nor the defaults, render fails with a
\* MissingPlaceholderError naming the unresolved placeholders and returns no
\* string.
C11_RenderFailsOnOpenPlaceholder ==
  (/\ tcall.method = "render"
   /\ ~(NamesIn(tpl.source) \subseteq DOMAIN tcall.values \cup DOMAIN tpl.replacements))
  => /\ tout.kind = "MissingPlaceholderError"
     /\ tout.missing = NamesIn(tpl.source) \ (DOMAIN tcall.values \cup DOMAIN tpl.replacements)

\* a render failed on a pattern with two placeholders, one resolved by a
\* supplied value and one by nothing: a partial substitution was possible
C11_Witness ==
  /\ tcall.method = "render"
  /\ tout.kind = "MissingPlaceholderError"
  /\ \E n \in NamesIn(tpl.source) : n \in DOMAIN tcall.values
  /\ \E m \in NamesIn(tpl.source) :
       m \notin DOMAIN tcall.values \cup DOMAIN tpl.replacements

RECURSIVE ReplacedAmong(_, _, _, _, _)
ReplacedAmong(src, i, names, values, defaults) ==
  IF i > Len(src) THEN <<>>
  ELSE LET closing == {j \in ClosingOf(src, i) : SubSeq(src, i + 1, j - 1) \in names}
       IN IF closing # {}
            THEN LET j == CHOOSE j \in closing : TRUE
                 IN Chosen(SubSeq(src, i + 1, j - 1), values, defaults)
                      \o ReplacedAmong(src, j + 1, names, values, defaults)
            ELSE <<src[i]>> \o ReplacedAmong(src, i + 1, names, values, defaults)

ExamplePattern == <<"{", "n", "}", "a", "{", "m", "}">>
ExampleCall ==
  /\ tcall.method = "partialRender"
  /\ tpl.source = ExamplePattern
  /\ DOMAIN tpl.replacements = {<<"n">>, <<"m">>}
  /\ DOMAIN tcall.values = {<<"n">>}
  /\ tcall.values[<<"n">>] = TStr(<<"x">>)

\* C14: the defaults of the Template partialRender returns are exactly the
\* entries of the original defaults whose placeholder is open in the returned
\* pattern; in the example the returned pattern has the value for the first
\* name, keeps the second placeholder, and the returned defaults hold the
\* second name only.
C14_DefaultsOfOpenPlaceholdersCarried ==
  tcall.method = "partialRender" =>
    LET new == tout.template
    IN /\ DOMAIN new.replacements = DOMAIN tpl.replacements \cap NamesIn(new.source)
       /\ \A n \in DOMAIN new.replacements : new.replacements[n] = tpl.replacements[n]
       /\ ExampleCall =>
            /\ new.source = <<"x", "a", "{", "m", "}">>
            /\ DOMAIN new.replacements = {<<"m">>}

\* the example's call was made and returned a Template
C14_Witness == ExampleCall /\ tout.kind = "Template"

\* the order the document handed to the constructor supplies, as written
SuppliedOrder ==
  IF JsonAt(value, <<"order">>).t = "array" THEN RawArray(JsonAt(value, <<"order">>)) ELSE <<>>

Indices == {config.types[i].val.index : i \in 1..Len(config.types)}

\* C15: the resolved order is the supplied order, unchanged, followed by the
\* keys of types it lacks in the iteration order of types; the indices of the
\* types are pairwise distinct and are exactly 0 .. count-1.
C15_OrderCompletionGivesDenseIndices ==
  Loaded =>
    /\ config.order = SuppliedOrder \o MissingFrom(SuppliedOrder, Keys(config.types))
    /\ \A i, j \in 1..Len(config.types) :
         i # j => config.types[i].val.index # config.types[j].val.index
    /\ Indices = 0..(Len(config.types) - 1)

\* the keys of types or of aliases in the order the files write them: the
\* one file of fromFile; for fromFiles the defaults file, then the custom
\* file (neither has a key that is an array index, so parsing kept the order)
WrittenKeys(part) ==
  IF entry = "fromFile" THEN Keys(ObjectAt(file, <<part>>))
  ELSE Keys(ObjectAt(rawDefaults, <<part>>)) \o Keys(ObjectAt(rawCustom, <<part>>))

RECURSIVE FirstOccurrences(_)
FirstOccurrences(q) ==
  IF q = <<>> THEN <<>>
  ELSE LET r == FirstOccurrences(SubSeq(q, 1, Len(q) - 1))
       IN IF Includes(r, q[Len(q)]) THEN r ELSE Append(r, q[Len(q)])

\* the order in which the keys, as the schema keeps them, were inserted
InsertionOrder(part) ==
  FirstOccurrences([i \in 1..Len(WrittenKeys(part)) |-> Trim(WrittenKeys(part)[i])])

\* the order in which for..in enumerates keys inserted in the order of q
EnumerationOrder(q) == Keys(OwnPropertyOrder([i \in 1..Len(q) |-> P(q[i], Null)]))

\* the record of the first key of order under which o holds the code
FirstWithCode(o, order, code, kind) ==
  LET hits == SelectSeq(order, LAMBDA k : HasOwn(o, k) /\ Get(o, k).emoji.code = code)
  IN IF hits = <<>> THEN NullResult ELSE [kind |-> kind, value |-> Get(o, hits[1])]

EmojiLookup(method) == pc = "returned" /\ call.method = method

\* C16 as stated: findTypeByEmojiCode returns the first record, in the
\* insertion order of types, whose emoji.code is the code, and null when no
\* type has it; findAliasByEmojiCode does the same over aliases.
C16_FirstInsertedWithCode ==
  /\ EmojiLookup("findTypeByEmojiCode") =>
       returned = FirstWithCode(config.types, InsertionOrder("types"), call.name, "CommitType")
  /\ EmojiLookup("findAliasByEmojiCode") =>
       returned =
         FirstWithCode(config.aliases, InsertionOrder("aliases"), call.name, "CommitAlias")

\* C16 amended: the record returned is the first in the order for..in
\* enumerates the mapping, that is the keys that are array indices in
\* ascending order and then the other keys in insertion order; null when no
\* entry has the code.
C16_FirstEnumeratedWithCode ==
  /\ EmojiLookup("findTypeByEmojiCode") =>
       returned = FirstWithCode(config.types, EnumerationOrder(InsertionOrder("types")),
                                call.name, "CommitType")
  /\ EmojiLookup("findAliasByEmojiCode") =>
       returned = FirstWithCode(config.aliases, EnumerationOrder(InsertionOrder("aliases")),
                                call.name, "CommitAlias")

\* a lookup by a code that several aliases share returned the alias whose
\* key is an array index, written after an alias of the same code whose key
\* is none
C16_Witness ==
  /\ EmojiLookup("findAliasByEmojiCode")
  /\ returned.kind = "CommitAlias"
  /\ Cardinality({i \in 1..Len(config.aliases) :
                    config.aliases[i].val.emoji.code = call.name}) > 1
  /\ IsArrayIndex(returned.value.name)
  /\ ~IsArrayIndex(InsertionOrder("aliases")[1])
  /\ Get(config.aliases, InsertionOrder("aliases")[1]).emoji.code = call.name

====
